---- MODULE Spec2Model ----
(***************************************************************************)
(* The barber-shop search of interface-endereco-barbeiros: the POST        *)
(* /api/search handler (route.ts), the grid search searchBarberShops with  *)
(* its geocode, tile-page and place-detail calls (lib/google.ts), as a     *)
(* state machine whose steps are the continuations between two awaits.     *)
(*                                                                         *)
(* Units and encodings:                                                    *)
(*   - geocoded coordinates are integers in 1/100 degree; grid point       *)
(*     coordinates are integers in 1/2400 degree, which makes the cell     *)
(*     midpoints of a 3x3 and of a 4x4 grid exact;                         *)
(*   - "" is an absent (undefined or empty) string, a place identifier     *)
(*     included; -1 is an absent number and <<>> an absent list.           *)
(***************************************************************************)
EXTENDS Integers, Sequences, FiniteSets, TLC

\* ------------------------------------------------------------ constants
MAX_GRID_POINTS == 16
MAX_PAGES_PER_POINT == 3
MAX_TOTAL_RESULTS == 500
DETAIL_LIMIT == 50
TOKEN_DELAY_MS == 2000
LARGE_CITY_SPAN == 35

\* ------------------------------------------------------------ bounds
\* the longest page of individually chosen hits the modelled upstream returns
MaxPageHits == 2
\* the blocks of places with identifiers of their own that the modelled upstream
\* returns in one page: one that nearly fills the result set, one just longer than
\* the enrichment limit
BulkSize == 499
TownSize == 51

\* ------------------------------------------------------------ absent values
NoId == ""
NoText == ""
NoNumber == -1
NoList == << >>
NoToken == ""
NoStatus == ""

Min(a, b) == IF a <= b THEN a ELSE b
Max(a, b) == IF a >= b THEN a ELSE b
Abs(a) == IF a < 0 THEN -a ELSE a

\* ------------------------------------------------------------ error classification
\* mapNewApiStatus: the newer error vocabulary into the legacy tokens
mapNewApiStatus(status) ==
    CASE status = "RESOURCE_EXHAUSTED" -> "OVER_QUERY_LIMIT"
      [] status = "PERMISSION_DENIED" -> "REQUEST_DENIED"
      [] status = "INVALID_ARGUMENT" -> "INVALID_REQUEST"
      [] OTHER -> status

\* the body of a non-OK Places response: unparseable, or {error?: {status?, message?}}
\* parseNewApiError builds the GoogleApiError thrown for it
parseNewApiError(res) ==
    IF res.parses
    THEN [message |-> IF res.message # NoText THEN res.message
                      ELSE "Places request failed with " \o res.http,
          status |-> mapNewApiStatus(res.status)]
    ELSE [message |-> "Places request failed with " \o res.http, status |-> NoStatus]

\* mutant: the quota token has no case of its own
statusFromGoogle_NoQuotaCase(status) ==
    CASE status = "REQUEST_DENIED" -> 403
      [] status = "INVALID_REQUEST" -> 400
      [] OTHER -> 500

\* statusFromGoogle: the legacy token to the endpoint's response code
statusFromGoogle(status) ==
    CASE status = "OVER_QUERY_LIMIT" -> 429
      [] status = "REQUEST_DENIED" -> 403
      [] status = "INVALID_REQUEST" -> 400
      [] OTHER -> 500

\* ------------------------------------------------------------ grid partition
\* Math.cos of an angle given in 1/200 degree, times 1000: the values at every
\* 15 degrees, linear in between; latitudes are between -90 and 90 degrees
CosTable == <<1000, 966, 866, 707, 500, 259, 0>>

cos(a) ==
    LET d == Abs(a)
        k == d \div 3000
        r == d % 3000
    IN IF k >= 6 THEN CosTable[7]
       ELSE CosTable[k + 1] - ((CosTable[k + 1] - CosTable[k + 2]) * r) \div 3000

\* meters per degree of latitude, and of longitude at the latitude lat (in
\* 1/200 degree): 111_000 * Math.cos(lat * Math.PI / 180). The program's numbers
\* are doubles, rounded to 53 bits; the numbers here are whole meters, rounded
\* down, so that close latitudes can get the same number here as they can there
\* (Math.cos is exactly 1 for every angle below about 1e-8 radians)
metersPerDegreeLat == 111000

\* mutant: a degree of longitude is as long as at the equator everywhere
metersPerDegreeLng_Equator(lat) == 111 * cos(0)

metersPerDegreeLng(lat) == 111 * cos(lat)

\* mutant: the upper limit is not applied
clamp_NoMax(value, min, max) == Max(min, value)

clamp(value, min, max) == Max(min, Min(value, max))

\* mutant: the threshold belongs to the large cities
GridDim_Inclusive(viewport) ==
    LET latSpan == Abs(viewport.northeast.lat - viewport.southwest.lat)
        lngSpan == Abs(viewport.northeast.lng - viewport.southwest.lng)
        largeCity == latSpan >= LARGE_CITY_SPAN \/ lngSpan >= LARGE_CITY_SPAN
    IN IF largeCity THEN 4 ELSE 3

\* rows and cols of the grid: 4 for a large city, else 3
GridDim(viewport) ==
    LET latSpan == Abs(viewport.northeast.lat - viewport.southwest.lat)
        lngSpan == Abs(viewport.northeast.lng - viewport.southwest.lng)
        largeCity == latSpan > LARGE_CITY_SPAN \/ lngSpan > LARGE_CITY_SPAN
    IN IF largeCity THEN 4 ELSE 3

\* the radius of the cells in whole meters: three quarters of the longer side of
\* a cell, clamped
CellRadius(viewport) ==
    LET latSpan == Abs(viewport.northeast.lat - viewport.southwest.lat)
        lngSpan == Abs(viewport.northeast.lng - viewport.southwest.lng)
        rows == GridDim(viewport)
        \* avgLat in 1/200 degree
        avgLat == viewport.southwest.lat + viewport.northeast.lat
        \* latStep * metersPerDegreeLat and lngStep * metersPerDegreeLng(avgLat),
        \* both times rows: a span in 1/100 degree by the whole meters of 1/100 degree
        latMeters == latSpan * (metersPerDegreeLat \div 100)
        lngMeters == lngSpan * (metersPerDegreeLng(avgLat) \div 100)
    IN clamp((3 * Max(latMeters, lngMeters)) \div (4 * rows), 5000, 40000)

\* mutant: the fallback point gets the smallest radius
CenterPoint_SmallRadius(center) ==
    << [lat |-> 24 * center.lat, lng |-> 24 * center.lng, radiusMeters |-> 5000] >>

\* the partition without a viewport: one point at the center
CenterPoint(center) ==
    << [lat |-> 24 * center.lat, lng |-> 24 * center.lng, radiusMeters |-> 40000] >>

\* buildGridPoints: one point at the center without a viewport, else the cell
\* midpoints of a 3x3 or 4x4 grid, row-major, at most MAX_GRID_POINTS of them
buildGridPoints(center, viewport) ==
    IF ~viewport.present
    THEN CenterPoint(center)
    ELSE LET latMin == viewport.southwest.lat
             latMax == viewport.northeast.lat
             lngMin == viewport.southwest.lng
             lngMax == viewport.northeast.lng
             latSpan == Abs(latMax - latMin)
             lngSpan == Abs(lngMax - lngMin)
             rows == GridDim(viewport)
             cols == GridDim(viewport)
             radiusMeters == CellRadius(viewport)
             \* latMin + latStep * (row + 0.5), in 1/2400 degree
             lat(row) == 24 * latMin + (latSpan * (2 * row + 1) * 12) \div rows
             lng(col) == 24 * lngMin + (lngSpan * (2 * col + 1) * 12) \div cols
             points == [k \in 1..(rows * cols) |->
                          [lat |-> lat((k - 1) \div cols), lng |-> lng((k - 1) % cols),
                           radiusMeters |-> radiusMeters]]
         IN SubSeq(points, 1, Min(Len(points), MAX_GRID_POINTS))

\* ------------------------------------------------------------ aggregation
\* the BarberPlace built from a raw hit (searchBarberShops, the entry literal)
Entry(place) ==
    [name |-> IF place.name # NoText THEN place.name ELSE "Unknown",
     formatted_address |-> place.formattedAddress,
     lat |-> IF place.latitude # NoNumber THEN place.latitude ELSE 0,
     lng |-> IF place.longitude # NoNumber THEN place.longitude ELSE 0,
     place_id |-> place.id,
     rating |-> place.rating,
     user_ratings_total |-> place.userRatingCount,
     types |-> place.types,
     formatted_phone_number |-> NoText,
     website |-> NoText]

CapWarning == "Stopped early after 500 results to control API cost."

\* one iteration of the for loop over a page's hits (searchBarberShops, lines
\* 610-630); acc.stopped is the break taken at the cap
\* mutant: the cap is checked with > instead of >=
Insert_CapOffByOne(acc, place) ==
    LET s2 == Append(acc.seen, Entry(place))
    IN IF Len(s2) > MAX_TOTAL_RESULTS
       THEN [seen |-> s2, ids |-> acc.ids \cup {place.id},
             warnings |-> Append(acc.warnings, CapWarning), stopped |-> TRUE]
       ELSE [seen |-> s2, ids |-> acc.ids \cup {place.id},
             warnings |-> acc.warnings, stopped |-> FALSE]

\* seen.set(placeId, entry) for a new identifier, and the check of the cap
Insert(acc, place) ==
    LET s2 == Append(acc.seen, Entry(place))
    IN IF Len(s2) >= MAX_TOTAL_RESULTS
       THEN [seen |-> s2, ids |-> acc.ids \cup {place.id},
             warnings |-> Append(acc.warnings, CapWarning), stopped |-> TRUE]
       ELSE [seen |-> s2, ids |-> acc.ids \cup {place.id},
             warnings |-> acc.warnings, stopped |-> FALSE]

\* mutant: a hit whose identifier is present overwrites the stored record
AddHit_LastWins(acc, place) ==
    IF acc.stopped \/ place.id = NoId
    THEN acc
    ELSE IF place.id \in acc.ids
    THEN [acc EXCEPT !.seen = [k \in 1..Len(acc.seen) |->
                                 IF acc.seen[k].place_id = place.id
                                 THEN Entry(place) ELSE acc.seen[k]]]
    ELSE Insert(acc, place)

AddHit(acc, place) ==
    IF acc.stopped \/ place.id = NoId \/ place.id \in acc.ids
    THEN acc
    ELSE Insert(acc, place)

\* the iterations lo..hi in order, split in halves to keep the evaluation shallow
RECURSIVE AddHits(_, _, _, _)
AddHits(hits, lo, hi, acc) ==
    IF lo > hi THEN acc
    ELSE IF lo = hi THEN AddHit(acc, hits[lo])
    ELSE LET mid == (lo + hi) \div 2
             left == AddHits(hits, lo, mid, acc)
         IN IF left.stopped THEN left ELSE AddHits(hits, mid + 1, hi, left)

Keys(s) == {s[j].place_id : j \in 1..Len(s)}

\* the for loop over one page's hits (searchBarberShops, lines 609-630)
Aggregate(hits, s, w) ==
    LET r == AddHits(hits, 1, Len(hits),
                     [seen |-> s, ids |-> Keys(s), warnings |-> w, stopped |-> FALSE])
    IN [seen |-> r.seen, warnings |-> r.warnings]


\* buildGoogleMapsUrl and normalizePlace (route.ts)
buildGoogleMapsUrl(placeId) == "https://www.google.com/maps/place/?q=place_id:" \o placeId

normalizePlace(place) ==
    [name |-> place.name,
     formatted_address |-> place.formatted_address,
     lat |-> place.lat,
     lng |-> place.lng,
     place_id |-> place.place_id,
     rating |-> place.rating,
     user_ratings_total |-> place.user_ratings_total,
     types |-> place.types,
     formatted_phone_number |-> place.formatted_phone_number,
     website |-> place.website,
     google_maps_url |-> buildGoogleMapsUrl(place.place_id)]

\* ------------------------------------------------------------ the upstream
\* What the three upstream services may answer. The code bounds none of it, so
\* the answers are drawn from small sets: a "village" upstream of short pages
\* of individually chosen hits, and a "city" upstream that also returns a bulk
\* block of BulkSize places in one page, and whose detail service is down; a
\* "town" upstream is the city's with a block of TownSize places and a detail
\* service that answers.
Place(id, name, addr, lat, lng, rating, count, types) ==
    [id |-> id, name |-> name, formattedAddress |-> addr, latitude |-> lat,
     longitude |-> lng, rating |-> rating, userRatingCount |-> count, types |-> types]

P1a == Place("p1", "Ace Cuts", "1 Main St", 3978, -8965, 5, 12, <<"barber_shop">>)
\* the same place again with every optional attribute missing
P1b == Place("p1", NoText, NoText, NoNumber, NoNumber, NoNumber, NoNumber, NoList)
P2a == Place("p2", "Blade", "2 Oak Ave", 3979, -8964, 4, 3, <<"hair_care", "barber_shop">>)
\* a hit without identifier
P0 == Place(NoId, "Ghost", "3 Elm Rd", 3977, -8966, 3, 1, <<"barber_shop">>)

BulkPlace(k) ==
    Place("b" \o ToString(k), "Shop", "Ring Rd", 3980, -8960, 4, 9, <<"barber_shop">>)

BulkBlock == [k \in 1..BulkSize |-> BulkPlace(k)]
TownBlock == [k \in 1..TownSize |-> BulkPlace(k)]

RECURSIVE SeqsUpTo(_, _)
SeqsUpTo(S, n) ==
    IF n = 0 THEN {<< >>}
    ELSE LET shorter == SeqsUpTo(S, n - 1)
         IN shorter \cup {Append(q, x) : q \in shorter, x \in S}

VillagePages == SeqsUpTo({P1a, P1b, P2a, P0}, MaxPageHits)

TownPages == {<<P1a>>, TownBlock, <<P2a>> \o TownBlock}

CityPages == {<<P1a>>, BulkBlock, <<P2a>> \o BulkBlock}

Tokens == {"tokA"}

\* a non-OK Places response: the HTTP status and the body parseNewApiError reads
PlacesErrors ==
    {[http |-> "502", parses |-> FALSE, status |-> NoStatus, message |-> NoText]}
    \cup {[http |-> "429", parses |-> TRUE, status |-> "RESOURCE_EXHAUSTED", message |-> m] :
             m \in {NoText, "Quota exceeded"}}
    \cup {[http |-> h, parses |-> TRUE, status |-> st, message |-> "Rejected"] :
             h \in {"400"},
             st \in {"PERMISSION_DENIED", "INVALID_ARGUMENT", "OVER_QUERY_LIMIT",
                      "INTERNAL", NoStatus}}

QuotaError ==
    {[http |-> "429", parses |-> TRUE, status |-> "RESOURCE_EXHAUSTED",
      message |-> "Quota exceeded"]}

\* a tile page response: non-OK, or {places?, nextPageToken?}
PageResponses(pageSet, errors) ==
    {[ok |-> FALSE, error |-> e, places |-> << >>, nextPageToken |-> NoToken] :
       e \in errors}
    \cup {[ok |-> TRUE, error |-> [http |-> "200"], places |-> hits, nextPageToken |-> t] :
             hits \in pageSet, t \in Tokens \cup {NoToken}}

\* a place-detail response: non-OK, a null body, or the three optional fields
Details(intl, natl, web) ==
    [ok |-> TRUE, error |-> [http |-> "200"], null |-> FALSE,
     internationalPhoneNumber |-> intl, nationalPhoneNumber |-> natl, websiteUri |-> web]

DetailErrors(errors) ==
    {[ok |-> FALSE, error |-> e, null |-> FALSE, internationalPhoneNumber |-> NoText,
      nationalPhoneNumber |-> NoText, websiteUri |-> NoText] : e \in errors}

VillageDetails ==
    {Details("+1 555 0100", "555 0100", "https://ace.example"),
     Details(NoText, "555 0101", NoText),
     Details(NoText, NoText, NoText),
     [Details(NoText, NoText, NoText) EXCEPT !.null = TRUE]}
    \cup DetailErrors(PlacesErrors)

TownDetails ==
    {Details("+1 555 0100", "555 0100", "https://ace.example")} \cup DetailErrors(QuotaError)

CityDetails == DetailErrors(QuotaError)

\* a geocode response: the HTTP outcome, the status and the results array
Corner(lat, lng) == [lat |-> lat, lng |-> lng]
NoViewport == [present |-> FALSE, northeast |-> Corner(0, 0), southwest |-> Corner(0, 0)]
SmallViewport ==
    [present |-> TRUE, northeast |-> Corner(3983, -8960), southwest |-> Corner(3973, -8970)]
LargeViewport ==
    [present |-> TRUE, northeast |-> Corner(3998, -8945), southwest |-> Corner(3958, -8985)]

Geometry(hasLocation, viewport) ==
    [hasLocation |-> hasLocation, location |-> Corner(3978, -8965), viewport |-> viewport]

GeoResponse(ok, status, results, msg) ==
    [ok |-> ok, http |-> IF ok THEN "200" ELSE "503", status |-> status,
     results |-> results, error_message |-> msg]

GeoFailures ==
    {GeoResponse(FALSE, NoStatus, << >>, NoText),
     GeoResponse(TRUE, "ZERO_RESULTS", << >>, NoText),
     GeoResponse(TRUE, "OVER_QUERY_LIMIT", << >>, "Quota exceeded"),
     GeoResponse(TRUE, "REQUEST_DENIED", << >>, "Key rejected"),
     GeoResponse(TRUE, "INVALID_REQUEST", << >>, NoText),
     GeoResponse(TRUE, "OK", << >>, NoText),
     GeoResponse(TRUE, "OK", <<Geometry(FALSE, NoViewport)>>, NoText)}

VillageGeo ==
    GeoFailures \cup {GeoResponse(TRUE, "OK", <<Geometry(TRUE, v)>>, NoText) :
                        v \in {NoViewport, SmallViewport}}

CityGeo ==
    {GeoResponse(TRUE, "ZERO_RESULTS", << >>, NoText)}
    \cup {GeoResponse(TRUE, "OK", <<Geometry(TRUE, v)>>, NoText) :
                        v \in {NoViewport, SmallViewport}}

VillagePageResponses == PageResponses(VillagePages, PlacesErrors)
TownPageResponses == PageResponses(TownPages, QuotaError)
CityPageResponses == PageResponses(CityPages, QuotaError)

\* the places an upstream has around a point: two per point, with identifiers
\* made of the point's coordinates
LocalPlace(center, n) ==
    Place("t" \o ToString(center.lat) \o "," \o ToString(center.lng) \o n,
          "Corner Shop", "High St", center.lat, center.lng, 4, 7, <<"barber_shop">>)

LocalPage(center) ==
    [ok |-> TRUE, error |-> [http |-> "200"],
     places |-> <<LocalPlace(center, "a"), LocalPlace(center, "b")>>,
     nextPageToken |-> NoToken]

\* an upstream whose pages never carry a continuation token: the page of the
\* places around the requested point, or a page of two places it knows
\* everywhere, or a quota error
SpringfieldPageResponses ==
    {[ok |-> FALSE, error |-> e, places |-> << >>, nextPageToken |-> NoToken] :
       e \in QuotaError}
    \cup {[ok |-> TRUE, error |-> [http |-> "200"], places |-> <<P1a, P2a>>,
           nextPageToken |-> NoToken]}

\* an upstream: its answers to a page request that do not depend on the point
\* (with those around the point when local is set), to a detail request and to
\* the geocode request
Village == [pages |-> VillagePageResponses, details |-> VillageDetails, geo |-> VillageGeo,
            local |-> FALSE]
Town == [pages |-> TownPageResponses, details |-> TownDetails, geo |-> CityGeo,
         local |-> FALSE]
City == [pages |-> CityPageResponses, details |-> CityDetails, geo |-> CityGeo,
         local |-> FALSE]
Springfield == [pages |-> SpringfieldPageResponses, details |-> TownDetails, geo |-> CityGeo,
                local |-> TRUE]

\* an upstream for a large city: the geocoder gives the large viewport (or finds
\* nothing), every page is empty or a block of TownSize places, with or without a
\* continuation token, or a quota error
MetropolisGeo ==
    {GeoResponse(TRUE, "ZERO_RESULTS", << >>, NoText),
     GeoResponse(TRUE, "OK", <<Geometry(TRUE, LargeViewport)>>, NoText)}

MetropolisPageResponses == PageResponses({<< >>, TownBlock}, QuotaError)

Metropolis == [pages |-> MetropolisPageResponses, details |-> TownDetails,
               geo |-> MetropolisGeo, local |-> FALSE]

\* the answers an upstream may give to the page request c
PagesFor(up, c) == up.pages \cup (IF up.local THEN {LocalPage(c.center)} ELSE {})

\* ------------------------------------------------------------ the request
\* String.prototype.trim on a string given as the sequence of its characters
WhiteSpace == {" ", "\t", "\n"}

RECURSIVE TrimStart(_)
TrimStart(str) ==
    IF str # << >> /\ Head(str) \in WhiteSpace THEN TrimStart(Tail(str)) ELSE str

RECURSIVE TrimEnd(_)
TrimEnd(str) ==
    IF str # << >> /\ str[Len(str)] \in WhiteSpace
    THEN TrimEnd(SubSeq(str, 1, Len(str) - 1))
    ELSE str

Trim(str) == TrimEnd(TrimStart(str))

\* the request bodies: not JSON, or {city?, includeDetails?}; an absent city is
\* the empty sequence, which the handler treats as it treats ""
Cities == {<< >>, <<" ", " ">>, <<" ", "S", "p", "\n">>}
Bodies ==
    {[parses |-> FALSE, city |-> << >>, includeDetails |-> "undefined"]}
    \cup {[parses |-> TRUE, city |-> c, includeDetails |-> d] :
            c \in Cities, d \in {"undefined", "true"}}

\* Boolean(body.includeDetails)
ToBoolean(v) == v = "true"

\* ------------------------------------------------------------ state
VARIABLES
    apiKey,         \* process.env.GOOGLE_MAPS_API_KEY, "" when unset
    body,           \* the request body
    pc,             \* where the handler is suspended: "start", "geocode", "page",
                    \* "sleep", "detail", or "done" once it has responded
    call,           \* the upstream call or timer the handler awaits
    response,       \* the endpoint's response
    city,           \* POST: body.city?.trim()
    includeDetails, \* POST: Boolean(body.includeDetails)
    geo,            \* searchBarberShops: the geocode result
    gridPoints,     \* searchBarberShops: buildGridPoints(...)
    pointIdx,       \* the for loop's position in gridPoints, from 1
    pageToken,      \* the do-while loop's pageToken
    pageCount,      \* the do-while loop's pageCount
    pages,          \* searchBarberShops: pages
    seen,           \* the Map seen, as the sequence of its values in insertion order
    warnings,       \* searchBarberShops: warnings
    results,        \* Array.from(seen.values()), then enriched in place
    detailLimit,    \* the enrichment loop's bound
    i,              \* the enrichment loop's index, from 0
    last,           \* history: the call answered last and what the upstream answered
    tileReqs,       \* history: page requests issued for the current tile
    sent,           \* history: the geocode and page requests issued by the search
    detailLog,      \* history: the place ids of the detail requests issued, in order
    offeredIds,     \* history: the identifiers of all hits of the pages received
    firstHit,       \* history: per individually offered identifier, its first hit
    conflict,       \* history: a later hit had the identifier of a first hit and
                    \* other attributes
    ui,             \* the page (Home): its state hooks city, includeDetails, loading,
                    \* error, warning, results, meta; and as history the status
                    \* of the response handled last, the searches started and
                    \* the fetches of handleSearch that have not ended
    csv,            \* the text downloadCsv has made of the page's results
    lats,           \* two latitudes in 1/200 degree given to metersPerDegreeLng
    meters          \* what metersPerDegreeLng made of them

inputs == <<apiKey, body>>
ctl == <<pc, call, response>>
parsed == <<city, includeDetails>>
search == <<geo, gridPoints, pointIdx, pageToken, pageCount, pages, seen, warnings>>
enrich == <<results, detailLimit, i>>
offered == <<offeredIds, firstHit, conflict>>
history == <<last, tileReqs, detailLog, offered, sent>>
conversion == <<lats, meters>>
browser == <<ui, csv>>
vars == <<inputs, ctl, parsed, search, enrich, history, browser, conversion>>

NoCall == [kind |-> "none"]
NoResponse == [kind |-> "none"]
NoGeo == [location |-> Corner(0, 0), viewport |-> NoViewport]
NoPlace == Place(NoId, NoText, NoText, NoNumber, NoNumber, NoNumber, NoNumber, NoList)
SmallIds == {P1a.id, P2a.id}
NoCsv == << >>
NoSent == [geocode |-> 0, page |-> 0]
NoLats == << >>
NoMeters == << >>

\* the page as useState initialises it
Home ==
    [city |-> << >>, includeDetails |-> FALSE, loading |-> FALSE, error |-> NoText,
     warning |-> NoText, results |-> << >>, meta |-> [total |-> 0, pages |-> 0],
     status |-> 0, searches |-> 0, inflight |-> 0]

\* what the history keeps of an answer: the call, how it ended ("ok", "notok" for
\* a non-OK or failed response, "rejected" for a fetch that threw), the upstream's
\* status token, and of a page the number of hits and the continuation token
Answer(c, outcome, status, nhits, token) ==
    [call |-> c, outcome |-> outcome, status |-> status, empty |-> nhits = 0, token |-> token]

Init ==
    /\ apiKey \in {"", "KEY"}
    /\ body \in Bodies
    /\ pc = "start"
    /\ call = NoCall
    /\ response = NoResponse
    /\ city = << >>
    /\ includeDetails = FALSE
    /\ geo = NoGeo
    /\ gridPoints = << >>
    /\ pointIdx = 0
    /\ pageToken = NoToken
    /\ pageCount = 0
    /\ pages = 0
    /\ seen = << >>
    /\ warnings = << >>
    /\ results = << >>
    /\ detailLimit = 0
    /\ i = 0
    /\ last = Answer(NoCall, "ok", NoStatus, 0, NoToken)
    /\ tileReqs = 0
    /\ sent = NoSent
    /\ detailLog = << >>
    /\ offeredIds = {}
    /\ conflict = FALSE
    /\ firstHit = [id \in SmallIds |-> NoPlace]
    /\ ui = Home
    /\ csv = NoCsv
    /\ lats = NoLats
    /\ meters = NoMeters

\* ------------------------------------------------------------ geocodeCity
Failure(message, status) ==
    [ok |-> FALSE, error |-> [message |-> message, status |-> status], value |-> NoGeo]

\* mutant: the first result is used whether or not it has coordinates
geocodeCity_NoCoordinateCheck(res) ==
    IF ~res.ok
    THEN Failure("Geocode request failed with " \o res.http, NoStatus)
    ELSE IF res.status # "OK" \/ Len(res.results) = 0
    THEN Failure(IF res.error_message # NoText THEN res.error_message
                 ELSE "Geocode status: " \o res.status, res.status)
    ELSE [ok |-> TRUE, error |-> [message |-> NoText, status |-> NoStatus],
          value |-> [location |-> res.results[1].location,
                     viewport |-> res.results[1].viewport]]

\* what geocodeCity makes of the geocode response: the GoogleApiError it throws
\* or the GeocodeResult it returns
geocodeCity(res) ==
    IF ~res.ok
    THEN Failure("Geocode request failed with " \o res.http, NoStatus)
    ELSE IF res.status # "OK" \/ Len(res.results) = 0
    THEN Failure(IF res.error_message # NoText THEN res.error_message
                 ELSE "Geocode status: " \o res.status, res.status)
    ELSE IF ~res.results[1].hasLocation
    THEN Failure("Geocode response missing coordinates", NoStatus)
    ELSE [ok |-> TRUE, error |-> [message |-> NoText, status |-> NoStatus],
          value |-> [location |-> res.results[1].location,
                     viewport |-> res.results[1].viewport]]

\* ------------------------------------------------------------ steps of the handler
\* the center of the location bias: { lat: point.lat, lng: point.lng }
CenterOf(point) == [lat |-> point.lat, lng |-> point.lng]

\* the request fetchPlacesPage sends for a grid point
PageCall(point, token) ==
    [kind |-> "page", textQuery |-> "barber shop", pageToken |-> token,
     center |-> CenterOf(point), radius |-> point.radiusMeters]

DetailCall(placeId) == [kind |-> "detail", placeId |-> placeId]

\* POST's catch of a GoogleApiError
Throw(err) ==
    /\ pc' = "done"
    /\ call' = NoCall
    /\ response' = [kind |-> "error", code |-> statusFromGoogle(err.status),
                    error |-> err.message, status |-> err.status]

\* POST's catch of anything else
Unexpected ==
    /\ pc' = "done"
    /\ call' = NoCall
    /\ response' = [kind |-> "error", code |-> 500,
                    error |-> "Unexpected server error", status |-> NoStatus]

\* an early return of POST with an error body
Reject(code, message) ==
    /\ pc' = "done"
    /\ call' = NoCall
    /\ response' = [kind |-> "error", code |-> code, error |-> message, status |-> NoStatus]

\* mutant: the pages of the last tile are reported
Return_TilePages(res, w) ==
    /\ pc' = "done"
    /\ call' = NoCall
    /\ response' = [kind |-> "ok", code |-> 200,
                    results |-> [k \in 1..Len(res) |-> normalizePlace(res[k])],
                    meta |-> [total |-> Len(res), pages |-> pageCount', strategy |-> "grid",
                              gridPoints |-> Len(gridPoints), warnings |-> w]]

\* searchBarberShops returns and POST answers with the results and meta
Return(res, w) ==
    /\ pc' = "done"
    /\ call' = NoCall
    /\ response' = [kind |-> "ok", code |-> 200,
                    results |-> [k \in 1..Len(res) |-> normalizePlace(res[k])],
                    meta |-> [total |-> Len(res), pages |-> pages', strategy |-> "grid",
                              gridPoints |-> Len(gridPoints), warnings |-> w]]

\* the for loop enters the tile k: its first page request carries no token
StartTile(points, k) ==
    /\ pointIdx' = k
    /\ pageToken' = NoToken
    /\ pageCount' = 0
    /\ pc' = "page"
    /\ call' = PageCall(points[k], NoToken)
    /\ tileReqs' = 1
    /\ sent' = [sent EXCEPT !.page = @ + 1]
    /\ response' = response

\* mutant: the requests for all remaining places are sent at once
FetchDetail_FanOut(res, k) ==
    /\ pc' = "detail"
    /\ call' = DetailCall(res[k + 1].place_id)
    /\ detailLog' = detailLog \o [j \in 1..(Len(res) - k) |-> res[k + j].place_id]
    /\ response' = response

\* fetchPlaceDetails for results[k], k counted from 0
FetchDetail(res, k) ==
    /\ pc' = "detail"
    /\ call' = DetailCall(res[k + 1].place_id)
    /\ detailLog' = Append(detailLog, res[k + 1].place_id)
    /\ response' = response

\* mutant: every result is enriched
detailLimitOf_Unbounded(n) == n

\* mutant: the limit the README gives
detailLimitOf_Sixty(n) == Min(n, 60)

\* Math.min(results.length, 50)
detailLimitOf(n) == Min(n, DETAIL_LIMIT)

\* after the tile loop: results = Array.from(seen.values()), then the enrichment
\* loop's first request, or the return
Finish(s, w) ==
    /\ results' = s
    /\ IF includeDetails /\ Len(s) > 0
       THEN /\ detailLimit' = detailLimitOf(Len(s))
            /\ i' = 0
            /\ FetchDetail(s, 0)
       ELSE /\ UNCHANGED <<detailLimit, i, detailLog>>
            /\ Return(s, w)

\* mutant: the credential is not looked at before the search is started
Post_NoKeyCheck ==
    /\ pc = "start"
    /\ UNCHANGED <<browser, conversion, inputs, search, enrich, last, tileReqs, detailLog, offered>>
    /\ IF ~body.parses
       THEN UNCHANGED <<parsed, sent>> /\ Reject(400, "Invalid JSON body")
       ELSE /\ city' = Trim(body.city)
            /\ includeDetails' = ToBoolean(body.includeDetails)
            /\ IF city' = << >>
               THEN UNCHANGED sent /\ Reject(400, "City is required")
               ELSE /\ pc' = "geocode"
                    /\ call' = [kind |-> "geocode", address |-> city', key |-> apiKey]
                    /\ sent' = [sent EXCEPT !.geocode = @ + 1]
                    /\ response' = response

\* POST up to its first await: the credential, the body, the city
Post ==
    /\ pc = "start"
    /\ UNCHANGED <<browser, conversion, inputs, search, enrich, last, tileReqs, detailLog, offered>>
    /\ IF apiKey = ""
       THEN UNCHANGED <<parsed, sent>> /\ Reject(500, "Missing GOOGLE_MAPS_API_KEY")
       ELSE IF ~body.parses
       THEN UNCHANGED <<parsed, sent>> /\ Reject(400, "Invalid JSON body")
       ELSE /\ city' = Trim(body.city)
            /\ includeDetails' = ToBoolean(body.includeDetails)
            /\ IF city' = << >>
               THEN UNCHANGED sent /\ Reject(400, "City is required")
               ELSE /\ pc' = "geocode"
                    /\ call' = [kind |-> "geocode", address |-> city', key |-> apiKey]
                    /\ sent' = [sent EXCEPT !.geocode = @ + 1]
                    /\ response' = response

\* the geocode response arrives: geocodeCity throws or returns; on a return the
\* grid is built and the first tile's first page is requested
GeocodeReturn(up) ==
    /\ pc = "geocode"
    /\ \E res \in up.geo :
         LET g == geocodeCity(res)
         IN /\ last' = Answer(call, IF g.ok THEN "ok" ELSE "notok", g.error.status, 0, NoToken)
            /\ UNCHANGED <<browser, conversion, inputs, parsed, enrich, detailLog, offered,
                           pages, seen, warnings>>
            /\ IF ~g.ok
               THEN /\ Throw(g.error)
                    /\ UNCHANGED <<geo, gridPoints, pointIdx, pageToken, pageCount, tileReqs, sent>>
               ELSE /\ geo' = g.value
                    /\ gridPoints' = buildGridPoints(g.value.location, g.value.viewport)
                    /\ StartTile(gridPoints', 1)

\* mutant: the loops do not break at the cap
AfterPage_NoCapBreak(size, token, count, idx, npoints) ==
    IF token # NoToken /\ count < MAX_PAGES_PER_POINT THEN "sleep"
    ELSE IF idx < npoints THEN "tile"
    ELSE "finish"

\* mutant: the do-while loop allows one page too many
AfterPage_ExtraPage(size, token, count, idx, npoints) ==
    IF size >= MAX_TOTAL_RESULTS THEN "finish"
    ELSE IF token # NoToken /\ count <= MAX_PAGES_PER_POINT THEN "sleep"
    ELSE IF idx < npoints THEN "tile"
    ELSE "finish"

\* where the loops go after a page has been aggregated: the breaks at the cap,
\* the do-while condition, the for loop's next point
AfterPage(size, token, count, idx, npoints) ==
    IF size >= MAX_TOTAL_RESULTS THEN "finish"
    ELSE IF token # NoToken /\ count < MAX_PAGES_PER_POINT THEN "sleep"
    ELSE IF idx < npoints THEN "tile"
    ELSE "finish"

\* the first hit of a page with the identifier id, NoPlace if there is none
FirstIn(hits, id) ==
    IF \E k \in 1..Len(hits) : hits[k].id = id
    THEN hits[CHOOSE k \in 1..Len(hits) :
                 hits[k].id = id /\ \A j \in 1..(k - 1) : hits[j].id # id]
    ELSE NoPlace

\* mutant: the token is used at once
BeforeTokenUse_NoWait(point, token) == PageCall(point, token)

\* the wait the do-while loop makes before it uses a continuation token
BeforeTokenUse(point, token) == [kind |-> "sleep", ms |-> TOKEN_DELAY_MS]

\* mutant: a failed page ends its tile only
PageFails_SkipTile(res) ==
    /\ last' = Answer(call, "notok",
                      IF res.error.parses THEN res.error.status ELSE NoStatus, 0, NoToken)
    /\ UNCHANGED <<geo, gridPoints, pages, seen, warnings, offered>>
    /\ IF pointIdx < Len(gridPoints)
       THEN StartTile(gridPoints, pointIdx + 1) /\ UNCHANGED <<enrich, detailLog>>
       ELSE UNCHANGED <<pointIdx, pageToken, pageCount, tileReqs, sent>> /\ Finish(seen, warnings)

\* a non-OK page response: fetchPlacesPage throws what parseNewApiError builds,
\* searchBarberShops lets it pass and POST catches it
PageFails(res) ==
    /\ last' = Answer(call, "notok",
                      IF res.error.parses THEN res.error.status ELSE NoStatus, 0, NoToken)
    /\ Throw(parseNewApiError(res.error))
    /\ UNCHANGED <<search, enrich, tileReqs, sent, detailLog, offered>>

\* an OK page response: the page is counted and aggregated, then the loops go on
PageArrives(res) ==
    LET agg == Aggregate(res.places, seen, warnings)
        go == AfterPage(Len(agg.seen), res.nextPageToken, pageCount + 1,
                        pointIdx, Len(gridPoints))
    IN /\ last' = Answer(call, "ok", NoStatus, Len(res.places), res.nextPageToken)
       /\ offeredIds' = offeredIds
            \cup ({res.places[k].id : k \in 1..Len(res.places)} \ {NoId})
       /\ firstHit' = [id \in SmallIds |->
                         IF firstHit[id] # NoPlace THEN firstHit[id]
                         ELSE FirstIn(res.places, id)]
       /\ conflict' = (conflict \/ \E k \in 1..Len(res.places) :
                                     /\ res.places[k].id \in SmallIds
                                     /\ res.places[k] # firstHit'[res.places[k].id])
       /\ UNCHANGED <<geo, gridPoints>>
       /\ pages' = pages + 1
       /\ seen' = agg.seen
       /\ warnings' = agg.warnings
       /\ CASE go = "sleep" ->
                 /\ pageCount' = pageCount + 1
                 /\ pageToken' = res.nextPageToken
                 /\ call' = BeforeTokenUse(gridPoints[pointIdx], pageToken')
                 /\ pc' = call'.kind
                 /\ tileReqs' = IF call'.kind = "page" THEN tileReqs + 1 ELSE tileReqs
                 /\ sent' = IF call'.kind = "page" THEN [sent EXCEPT !.page = @ + 1] ELSE sent
                 /\ UNCHANGED <<pointIdx, response, enrich, detailLog>>
            [] go = "tile" ->
                 /\ StartTile(gridPoints, pointIdx + 1)
                 /\ UNCHANGED <<enrich, detailLog>>
            [] go = "finish" ->
                 /\ pageCount' = pageCount + 1
                 /\ pageToken' = IF Len(agg.seen) >= MAX_TOTAL_RESULTS
                                 THEN pageToken ELSE res.nextPageToken
                 /\ UNCHANGED <<pointIdx, tileReqs, sent>>
                 /\ Finish(agg.seen, agg.warnings)

\* a tile page response arrives
PageReturn(up) ==
    /\ pc = "page"
    /\ UNCHANGED <<browser, conversion, inputs, parsed>>
    /\ \E res \in PagesFor(up, call) : IF res.ok THEN PageArrives(res) ELSE PageFails(res)

\* the delay before a continuation token is used is over: the page is requested
SleepReturn ==
    /\ pc = "sleep"
    /\ pc' = "page"
    /\ call' = PageCall(gridPoints[pointIdx], pageToken)
    /\ tileReqs' = tileReqs + 1
    /\ sent' = [sent EXCEPT !.page = @ + 1]
    /\ last' = Answer(call, "ok", NoStatus, 0, NoToken)
    /\ UNCHANGED <<browser, conversion, inputs, parsed, search, enrich, response, detailLog, offered>>

\* the enrichment loop's assignments for one place
applyDetails(place, d) ==
    IF d.null THEN place
    ELSE [place EXCEPT
            !.formatted_phone_number =
                IF d.internationalPhoneNumber # NoText THEN d.internationalPhoneNumber
                ELSE d.nationalPhoneNumber,
            !.website = d.websiteUri]

\* mutant: a failed detail request leaves its place as it is and the loop goes on
DetailFails_BestEffort(res) ==
    /\ last' = Answer(call, "notok",
                      IF res.error.parses THEN res.error.status ELSE NoStatus, 0, NoToken)
    /\ results' = results
    /\ i' = i + 1
    /\ IF i' < detailLimit
       THEN FetchDetail(results, i')
       ELSE UNCHANGED detailLog /\ Return(results, warnings)

\* a non-OK detail response: fetchPlaceDetails throws, nothing catches it before POST
DetailFails(res) ==
    /\ last' = Answer(call, "notok",
                      IF res.error.parses THEN res.error.status ELSE NoStatus, 0, NoToken)
    /\ Throw(parseNewApiError(res.error))
    /\ UNCHANGED <<results, i, detailLog>>

\* an OK detail response: the place is enriched and the loop goes on
DetailArrives(res) ==
    /\ last' = Answer(call, "ok", NoStatus, 0, NoToken)
    /\ results' = [results EXCEPT ![i + 1] = applyDetails(@, res)]
    /\ i' = i + 1
    /\ IF i' < detailLimit
       THEN FetchDetail(results', i')
       ELSE UNCHANGED detailLog /\ Return(results', warnings)

\* a place-detail response arrives
DetailReturn(up) ==
    /\ pc = "detail"
    /\ UNCHANGED <<browser, conversion, inputs, parsed, search, detailLimit, tileReqs, sent, offered>>
    /\ \E res \in up.details : IF res.ok THEN DetailArrives(res) ELSE DetailFails(res)

\* fetch itself fails (no response at all): the error is not a GoogleApiError
FetchRejects ==
    /\ pc \in {"geocode", "page", "detail"}
    /\ last' = Answer(call, "rejected", NoStatus, 0, NoToken)
    /\ Unexpected
    /\ UNCHANGED <<browser, conversion, inputs, parsed, search, enrich, tileReqs, sent, detailLog,
                   offered>>

Step(up) ==
    \/ Post
    \/ GeocodeReturn(up)
    \/ PageReturn(up)
    \/ SleepReturn
    \/ DetailReturn(up)
    \/ FetchRejects

Next == Step(Village)
NextTown == Step(Town)
NextCity == Step(City)

\* an upstream without continuation tokens never makes the handler wait
NextSpringfield ==
    \/ Post
    \/ GeocodeReturn(Springfield)
    \/ PageReturn(Springfield)
    \/ DetailReturn(Springfield)
    \/ FetchRejects

\* the search against an upstream that answers every tile with a single page
SpecSpringfield == Init /\ [][NextSpringfield]_vars
\* the search against an upstream of short pages of individually chosen hits
Spec == Init /\ [][Next]_vars
\* the search against an upstream with more places than the enrichment limit
SpecTown == Init /\ [][NextTown]_vars
\* the search against an upstream that can fill the result set
SpecCity == Init /\ [][NextCity]_vars

\* every upstream call returns: with a response, or fetch rejects
UpstreamReturns(up) ==
    \/ GeocodeReturn(up)
    \/ PageReturn(up)
    \/ DetailReturn(up)
    \/ FetchRejects

NextMetropolis == Step(Metropolis)

\* the search against the upstream of a large city, where the handler runs when
\* the request has arrived, timers fire and every upstream call returns
SpecMetropolis ==
    /\ Init
    /\ [][NextMetropolis]_vars
    /\ WF_vars(Post)
    /\ WF_vars(SleepReturn)
    /\ WF_vars(UpstreamReturns(Metropolis))

\* ------------------------------------------------------------ the partition alone
\* buildGridPoints as the search calls it, for geocode results of many shapes:
\* corners in 1/100 degree from the poles and the antimeridian to cities, with
\* spans of zero, 0.1, 0.35, 0.36 degrees and up to the whole globe, the
\* northeast corner also south or west of the southwest corner (as its longitude
\* is for a viewport across the antimeridian, from 179.9 to -180 degrees)
GridLats == {-9000, 0, 3973, 3983, 4008, 4009, 9000}
GridLngs == {-18000, -8970, -8960, -8935, -8934, 17990, 18000}

GridViewports ==
    {NoViewport} \cup
    {[present |-> TRUE, northeast |-> Corner(n, e), southwest |-> Corner(s, w)] :
        n \in GridLats, e \in GridLngs, s \in GridLats, w \in GridLngs}

GridCenters == {Corner(3978, -8965), Corner(-9000, 18000)}

InitGrid ==
    /\ apiKey = "KEY"
    /\ body \in {b \in Bodies : b.parses /\ Trim(b.city) # << >> /\ ~ToBoolean(b.includeDetails)}
    /\ pc = "partition"
    /\ call = NoCall
    /\ response = NoResponse
    /\ city = Trim(body.city)
    /\ includeDetails = FALSE
    /\ geo \in {[location |-> c, viewport |-> v] : c \in GridCenters, v \in GridViewports}
    /\ gridPoints = << >>
    /\ pointIdx = 0
    /\ pageToken = NoToken
    /\ pageCount = 0
    /\ pages = 0
    /\ seen = << >>
    /\ warnings = << >>
    /\ results = << >>
    /\ detailLimit = 0
    /\ i = 0
    /\ last = Answer(NoCall, "ok", NoStatus, 0, NoToken)
    /\ tileReqs = 0
    /\ sent = NoSent
    /\ detailLog = << >>
    /\ offeredIds = {}
    /\ conflict = FALSE
    /\ firstHit = [id \in SmallIds |-> NoPlace]
    /\ ui = Home
    /\ csv = NoCsv
    /\ lats = NoLats
    /\ meters = NoMeters

\* searchBarberShops: const gridPoints = buildGridPoints(geo.location, geo.viewport)
Partition ==
    /\ pc = "partition"
    /\ gridPoints' = buildGridPoints(geo.location, geo.viewport)
    /\ pc' = "partitioned"
    /\ UNCHANGED <<browser, conversion, inputs, call, response, parsed, geo, pointIdx, pageToken, pageCount,
                   pages, seen, warnings, enrich, history>>

NextGrid == Partition

\* the partition of a geocode result
SpecGrid == InitGrid /\ [][NextGrid]_vars

\* ------------------------------------------------------------ the conversion alone
\* metersPerDegreeLng for pairs of latitudes between the poles, in 1/200 degree:
\* the poles, 89 degrees, 45, the average latitude of SmallViewport, 15, 1 degree,
\* the equator and the latitudes next to it
ConvertedLats ==
    {-18000, -17800, -9000, -3000, -200, -1, 0, 1, 200, 3000, 7956, 9000, 17800, 18000}

InitConvert ==
    /\ apiKey = "KEY"
    /\ body = [parses |-> TRUE, city |-> << >>, includeDetails |-> "false"]
    /\ pc = "convert"
    /\ call = NoCall
    /\ response = NoResponse
    /\ city = << >>
    /\ includeDetails = FALSE
    /\ geo = NoGeo
    /\ gridPoints = << >>
    /\ pointIdx = 0
    /\ pageToken = NoToken
    /\ pageCount = 0
    /\ pages = 0
    /\ seen = << >>
    /\ warnings = << >>
    /\ results = << >>
    /\ detailLimit = 0
    /\ i = 0
    /\ last = Answer(NoCall, "ok", NoStatus, 0, NoToken)
    /\ tileReqs = 0
    /\ sent = NoSent
    /\ detailLog = << >>
    /\ offeredIds = {}
    /\ conflict = FALSE
    /\ firstHit = [id \in SmallIds |-> NoPlace]
    /\ ui = Home
    /\ csv = NoCsv
    /\ lats \in ConvertedLats \X ConvertedLats
    /\ meters = NoMeters

\* metersPerDegreeLng applied to both latitudes
Convert ==
    /\ pc = "convert"
    /\ meters' = <<metersPerDegreeLng(lats[1]), metersPerDegreeLng(lats[2])>>
    /\ pc' = "converted"
    /\ UNCHANGED <<inputs, call, response, parsed, search, enrich, history, browser, lats>>

NextConvert == Convert

\* the conversion of two latitudes
SpecConvert == InitConvert /\ [][NextConvert]_vars

\* ------------------------------------------------------------ the page
\* Home (app/page.tsx) in front of the endpoint: the page posts to /api/search,
\* the handler runs against a small upstream, the page handles the response.
\* the searches one page session starts
MaxSearches == 2

\* what the user types into the city field
TypedCities == {<<" ">>, <<"S", "p">>}

\* the upstream behind the page: a geocoder over quota or a city without
\* viewport, pages of one or two places with or without a token, or over quota
HamletPageResponses == PageResponses({<<P1a>>, <<P1a, P2a>>}, QuotaError)
HamletGeo ==
    {GeoResponse(TRUE, "OVER_QUERY_LIMIT", << >>, "Quota exceeded"),
     GeoResponse(TRUE, "OK", <<Geometry(TRUE, NoViewport)>>, NoText)}
Hamlet == [pages |-> HamletPageResponses, details |-> TownDetails, geo |-> HamletGeo,
           local |-> FALSE]

\* the handler between two requests
IdleBody == [parses |-> TRUE, city |-> << >>, includeDetails |-> "false"]

InitPage ==
    /\ apiKey \in {"", "KEY"}
    /\ body = IdleBody
    /\ pc = "idle"
    /\ call = NoCall
    /\ response = NoResponse
    /\ city = << >>
    /\ includeDetails = FALSE
    /\ geo = NoGeo
    /\ gridPoints = << >>
    /\ pointIdx = 0
    /\ pageToken = NoToken
    /\ pageCount = 0
    /\ pages = 0
    /\ seen = << >>
    /\ warnings = << >>
    /\ results = << >>
    /\ detailLimit = 0
    /\ i = 0
    /\ last = Answer(NoCall, "ok", NoStatus, 0, NoToken)
    /\ tileReqs = 0
    /\ sent = NoSent
    /\ detailLog = << >>
    /\ offeredIds = {}
    /\ conflict = FALSE
    /\ firstHit = [id \in SmallIds |-> NoPlace]
    /\ ui = Home
    /\ csv = NoCsv
    /\ lats = NoLats
    /\ meters = NoMeters

\* the request is over: nothing of it is kept
RequestEnds ==
    /\ body' = IdleBody
    /\ pc' = "idle"
    /\ call' = NoCall
    /\ response' = NoResponse
    /\ city' = << >>
    /\ includeDetails' = FALSE
    /\ geo' = NoGeo
    /\ gridPoints' = << >>
    /\ pointIdx' = 0
    /\ pageToken' = NoToken
    /\ pageCount' = 0
    /\ pages' = 0
    /\ seen' = << >>
    /\ warnings' = << >>
    /\ results' = << >>
    /\ detailLimit' = 0
    /\ i' = 0
    /\ last' = Answer(NoCall, "ok", NoStatus, 0, NoToken)
    /\ tileReqs' = 0
    /\ sent' = NoSent
    /\ detailLog' = << >>
    /\ offeredIds' = {}
    /\ conflict' = FALSE
    /\ firstHit' = [id \in SmallIds |-> NoPlace]
    /\ UNCHANGED <<apiKey, csv, conversion>>

\* the city field's onChange; the field is disabled while loading
setCity ==
    /\ ~ui.loading
    /\ \E c \in TypedCities : ui' = [ui EXCEPT !.city = c]
    /\ ui'.city # ui.city
    /\ UNCHANGED <<inputs, ctl, parsed, search, enrich, history, csv, conversion>>

\* the checkbox's onChange; the checkbox is disabled while loading
setIncludeDetails ==
    /\ ~ui.loading
    /\ ui' = [ui EXCEPT !.includeDetails = ~ui.includeDetails]
    /\ UNCHANGED <<inputs, ctl, parsed, search, enrich, history, csv, conversion>>

\* mutant: the form can be submitted while a search is loading
handleSearch_NotDisabled ==
    /\ ui.searches < MaxSearches
    /\ LET trimmed == Trim(ui.city)
       IN IF trimmed = << >>
          THEN /\ ui' = [ui EXCEPT !.error = "Please type a city name first."]
               /\ UNCHANGED <<inputs, ctl>>
          ELSE /\ ui' = [ui EXCEPT !.loading = TRUE, !.error = NoText, !.warning = NoText,
                                   !.results = << >>, !.searches = @ + 1,
                                   !.inflight = @ + 1]
               /\ body' = [parses |-> TRUE, city |-> trimmed,
                           includeDetails |-> IF ui.includeDetails THEN "true" ELSE "false"]
               /\ pc' = "start"
               /\ UNCHANGED <<apiKey, call, response>>
    /\ UNCHANGED <<parsed, search, enrich, history, csv, conversion>>

\* handleSearch up to its await of fetch; the form's controls are disabled while
\* loading, so that it runs only when no search is loading
handleSearch ==
    /\ ~ui.loading
    /\ ui.searches < MaxSearches
    /\ LET trimmed == Trim(ui.city)
       IN IF trimmed = << >>
          THEN /\ ui' = [ui EXCEPT !.error = "Please type a city name first."]
               /\ UNCHANGED <<inputs, ctl>>
          ELSE /\ ui' = [ui EXCEPT !.loading = TRUE, !.error = NoText, !.warning = NoText,
                                   !.results = << >>, !.searches = @ + 1,
                                   !.inflight = @ + 1]
               /\ body' = [parses |-> TRUE, city |-> trimmed,
                           includeDetails |-> IF ui.includeDetails THEN "true" ELSE "false"]
               /\ pc' = "start"
               /\ UNCHANGED <<apiKey, call, response>>
    /\ UNCHANGED <<parsed, search, enrich, history, csv, conversion>>

\* warningMessages.join(" ")
RECURSIVE JoinWarnings(_)
JoinWarnings(messages) ==
    IF messages = << >> THEN NoText
    ELSE IF Len(messages) = 1 THEN messages[1]
    ELSE messages[1] \o " " \o JoinWarnings(Tail(messages))

\* mutant: an error response leaves the totals of the search before
OnErrorResponse_StaleMeta(code, message) ==
    [ui EXCEPT !.error = IF message # NoText THEN message
                         ELSE "Search failed. Please try again.",
               !.warning = IF code = 429
                           THEN "Results may be limited due to API quota or rate limits."
                           ELSE @,
               !.status = code,
               !.inflight = @ - 1,
               !.loading = FALSE]

\* handleSearch for a response that is not ok, with the error of its body ("" if
\* the body has none)
OnErrorResponse(code, message) ==
    [ui EXCEPT !.error = IF message # NoText THEN message
                         ELSE "Search failed. Please try again.",
               !.warning = IF code = 429
                           THEN "Results may be limited due to API quota or rate limits."
                           ELSE @,
               !.meta = [total |-> 0, pages |-> 0],
               !.status = code,
               !.inflight = @ - 1,
               !.loading = FALSE]

\* handleSearch for an ok response with the body data; hasMeta and hasResults
\* tell whether the body has these members
OnOkResponse(code, hasResults, res, hasMeta, meta) ==
    LET warningMessages ==
            (IF hasMeta THEN meta.warnings ELSE << >>)
            \o (IF ui.includeDetails /\ Len(res) > DETAIL_LIMIT
                THEN <<"Place details fetched only for the first 50 places to stay within quota.">>
                ELSE << >>)
    IN [ui EXCEPT !.results = res,
                  !.meta = IF hasMeta THEN [total |-> meta.total, pages |-> meta.pages]
                           ELSE [total |-> Len(res), pages |-> 1],
                  !.warning = JoinWarnings(warningMessages),
                  !.status = code,
                  !.inflight = @ - 1,
                  !.loading = FALSE]

\* the endpoint's response arrives and handleSearch runs to its end
SearchResponds ==
    /\ ui.loading
    /\ pc = "done"
    /\ ui' = IF response.kind = "error"
             THEN OnErrorResponse(response.code, response.error)
             ELSE OnOkResponse(response.code, TRUE, response.results, TRUE, response.meta)
    /\ RequestEnds

\* a response whose body is not JSON arrives (res.json() rejects, data is {})
SearchBodyUnreadable ==
    /\ ui.loading
    /\ pc = "done"
    /\ \E ok \in BOOLEAN :
         ui' = IF ok THEN OnOkResponse(200, FALSE, << >>, FALSE, << >>)
               ELSE OnErrorResponse(502, NoText)
    /\ RequestEnds

\* fetch rejects: the catch block
SearchFetchThrows ==
    /\ ui.loading
    /\ pc = "done"
    /\ ui' = [ui EXCEPT !.error = "Unexpected error. Please try again.",
                        !.meta = [total |-> 0, pages |-> 0],
                        !.status = 0,
                        !.inflight = @ - 1,
                        !.loading = FALSE]
    /\ RequestEnds

NextPage ==
    \/ setCity
    \/ setIncludeDetails
    \/ handleSearch
    \/ Post
    \/ GeocodeReturn(Hamlet)
    \/ PageReturn(Hamlet)
    \/ SleepReturn
    \/ DetailReturn(Hamlet)
    \/ FetchRejects
    \/ SearchResponds
    \/ SearchBodyUnreadable
    \/ SearchFetchThrows

\* the page in front of the endpoint
SpecPage == InitPage /\ [][NextPage]_vars

\* the fetch of handleSearch settles: with a response or by throwing
FetchSettles ==
    \/ SearchResponds
    \/ SearchBodyUnreadable
    \/ SearchFetchThrows

\* the page in front of the endpoint, where the handler runs when the request has
\* arrived, timers fire, every upstream call returns and the page's fetch settles
SpecPageLive ==
    /\ InitPage
    /\ [][NextPage]_vars
    /\ WF_vars(Post)
    /\ WF_vars(SleepReturn)
    /\ WF_vars(UpstreamReturns(Hamlet))
    /\ WF_vars(FetchSettles)

\* ------------------------------------------------------------ the CSV export
\* lib/csv.ts. Texts are sequences of characters here, so that the characters
\* of a value can be looked at; a number is an integer, coordinates are in
\* 1/100 degree.
CSV_HEADERS ==
    <<<<"n", "a", "m", "e">>,
      <<"f", "o", "r", "m", "a", "t", "t", "e", "d", "_", "a", "d", "d", "r", "e",
        "s", "s">>,
      <<"l", "a", "t">>,
      <<"l", "n", "g">>,
      <<"p", "l", "a", "c", "e", "_", "i", "d">>,
      <<"r", "a", "t", "i", "n", "g">>,
      <<"u", "s", "e", "r", "_", "r", "a", "t", "i", "n", "g", "s", "_", "t", "o",
        "t", "a", "l">>,
      <<"t", "y", "p", "e", "s">>,
      <<"g", "o", "o", "g", "l", "e", "_", "m", "a", "p", "s", "_", "u", "r", "l">>,
      <<"f", "o", "r", "m", "a", "t", "t", "e", "d", "_", "p", "h", "o", "n", "e",
        "_", "n", "u", "m", "b", "e", "r">>,
      <<"w", "e", "b", "s", "i", "t", "e">>>>

Quote == "\""
Comma == ","
NewLine == "\n"

\* String(n) of a whole number
Digit(d) == <<"0", "1", "2", "3", "4", "5", "6", "7", "8", "9">>[d + 1]

RECURSIVE Digits(_)
Digits(n) == IF n < 10 THEN <<Digit(n)>> ELSE Append(Digits(n \div 10), Digit(n % 10))

IntegerText(n) == IF n < 0 THEN <<"-">> \o Digits(-n) ELSE Digits(n)

\* String(x) of a number given in hundredths: 3978 is "39.78", -8960 "-89.6"
DecimalText(h) ==
    LET a == Abs(h)
        whole == Digits(a \div 100)
        frac == a % 100
        fraction == IF frac = 0 THEN << >>
                    ELSE IF frac % 10 = 0 THEN <<".", Digit(frac \div 10)>>
                    ELSE <<".", Digit(frac \div 10), Digit(frac % 10)>>
    IN (IF h < 0 THEN <<"-">> ELSE << >>) \o whole \o fraction

\* str.replace(/"/g, '""')
RECURSIVE DoubleQuotes(_)
DoubleQuotes(str) ==
    IF str = << >> THEN << >>
    ELSE (IF Head(str) = Quote THEN <<Quote, Quote>> ELSE <<Head(str)>>)
         \o DoubleQuotes(Tail(str))

\* mutant: a line break does not make a value quoted
escapeCsvValue_NoNewline(str) ==
    IF \E k \in 1..Len(str) : str[k] \in {Quote, Comma}
    THEN <<Quote>> \o DoubleQuotes(str) \o <<Quote>>
    ELSE str

\* escapeCsvValue of a value's text; the text of undefined and null is empty
escapeCsvValue(str) ==
    IF \E k \in 1..Len(str) : str[k] \in {Quote, Comma, NewLine}
    THEN <<Quote>> \o DoubleQuotes(str) \o <<Quote>>
    ELSE str

\* Array.prototype.join
RECURSIVE join(_, _)
join(texts, sep) ==
    IF texts = << >> THEN << >>
    ELSE IF Len(texts) = 1 THEN texts[1]
    ELSE texts[1] \o sep \o join(Tail(texts), sep)

\* buildGoogleMapsUrl on a place_id given by its characters
MapsUrlText(placeId) ==
    <<"h", "t", "t", "p", "s", ":", "/", "/", "w", "w", "w", ".", "g", "o", "o", "g",
    "l", "e", ".", "c", "o", "m", "/", "m", "a", "p", "s", "/", "p", "l", "a", "c", "e",
    "/", "?", "q", "=", "p", "l", "a", "c", "e", "_", "i", "d", ":">>
    \o placeId

\* placesToCsv: the values of a place in column order, as texts
values(place) ==
    <<place.name,
      place.formatted_address,
      DecimalText(place.lat),
      DecimalText(place.lng),
      place.place_id,
      IF place.rating = NoNumber THEN << >> ELSE IntegerText(place.rating),
      IF place.user_ratings_total = NoNumber THEN << >>
      ELSE IntegerText(place.user_ratings_total),
      join(place.types, <<";">>),
      MapsUrlText(place.place_id),
      place.formatted_phone_number,
      place.website>>

placesToCsv(places) ==
    LET header == join(CSV_HEADERS, <<Comma>>)
        row(place) == join([k \in 1..Len(values(place)) |-> escapeCsvValue(values(place)[k])],
                           <<Comma>>)
        rows == [k \in 1..Len(places) |-> row(places[k])]
    IN join(<<header>> \o rows, <<NewLine>>)

\* the texts of a field: every sequence of up to MaxFieldLen characters of an
\* alphabet with the comma, the double quote and the line break
MaxFieldLen == 2
Alphabet == {"a", Comma, Quote, NewLine}
FieldTexts == SeqsUpTo(Alphabet, MaxFieldLen)

CsvPlace(name, address, types, phone) ==
    [name |-> name, formatted_address |-> address, lat |-> 3978, lng |-> -8960,
     place_id |-> <<"p", "1">>, rating |-> NoNumber, user_ratings_total |-> 12,
     types |-> types, google_maps_url |-> MapsUrlText(<<"p", "1">>),
     formatted_phone_number |-> phone, website |-> << >>]

\* a record whose address has a comma and one whose name has a double quote
CommaPlace ==
    [name |-> <<"B">>, formatted_address |-> <<"1", Comma, " ", "S", "t">>, lat |-> -5,
     lng |-> 18000, place_id |-> <<"p", "2">>, rating |-> 5, user_ratings_total |-> NoNumber,
     types |-> << >>, google_maps_url |-> MapsUrlText(<<"p", "2">>),
     formatted_phone_number |-> <<"+", "1">>, website |-> <<"h", ":", Quote, Comma>>]
QuotePlace ==
    [CommaPlace EXCEPT !.name = <<Quote, "J", Quote>>, !.place_id = <<"p", "3">>,
                       !.google_maps_url = MapsUrlText(<<"p", "3">>), !.lat = 100]

CsvPlaces ==
    {CsvPlace(n, a, t, ph) :
        n \in FieldTexts,
        a \in {<< >>, <<Comma>>, <<NewLine, Quote>>},
        t \in {<< >>, <<<<"a">>, <<"b", Comma>>>>},
        ph \in {<< >>, <<Quote>>}}

CsvLists ==
    {<< >>} \cup {<<p>> : p \in CsvPlaces}
    \cup {<<p, q>> : p \in CsvPlaces, q \in {CommaPlace, QuotePlace}}
    \cup {<<CommaPlace, QuotePlace>>}

\* the page with results on it
InitCsv ==
    /\ apiKey = "KEY"
    /\ body = IdleBody
    /\ pc = "idle"
    /\ call = NoCall
    /\ response = NoResponse
    /\ city = << >>
    /\ includeDetails = FALSE
    /\ geo = NoGeo
    /\ gridPoints = << >>
    /\ pointIdx = 0
    /\ pageToken = NoToken
    /\ pageCount = 0
    /\ pages = 0
    /\ seen = << >>
    /\ warnings = << >>
    /\ results = << >>
    /\ detailLimit = 0
    /\ i = 0
    /\ last = Answer(NoCall, "ok", NoStatus, 0, NoToken)
    /\ tileReqs = 0
    /\ sent = NoSent
    /\ detailLog = << >>
    /\ offeredIds = {}
    /\ conflict = FALSE
    /\ firstHit = [id \in SmallIds |-> NoPlace]
    /\ \E list \in CsvLists :
         ui = [Home EXCEPT !.results = list,
                           !.meta = [total |-> Len(list), pages |-> 1],
                           !.status = 200, !.searches = 1]
    /\ csv = NoCsv
    /\ lats = NoLats
    /\ meters = NoMeters

\* downloadCsv: nothing without results, else the CSV text of the results
downloadCsv ==
    /\ ~ui.loading
    /\ ui.results # << >>
    /\ csv' = placesToCsv(ui.results)
    /\ UNCHANGED <<inputs, ctl, parsed, search, enrich, history, ui, conversion>>

NextCsv == downloadCsv

\* the download of the results on the page
SpecCsv == InitCsv /\ [][NextCsv]_vars

\* ------------------------------------------------------------ properties
\* what a stored record must hold of the hit it was made from: the hit's
\* attributes, a missing name shown as "Unknown" and missing coordinates as 0
HoldsAttributesOf(e, hit) ==
    /\ e.place_id = hit.id
    /\ e.name = (IF hit.name = NoText THEN "Unknown" ELSE hit.name)
    /\ e.formatted_address = hit.formattedAddress
    /\ e.lat = (IF hit.latitude = NoNumber THEN 0 ELSE hit.latitude)
    /\ e.lng = (IF hit.longitude = NoNumber THEN 0 ELSE hit.longitude)
    /\ e.rating = hit.rating
    /\ e.user_ratings_total = hit.userRatingCount
    /\ e.types = hit.types

BlockIds == {BulkBlock[k].id : k \in 1..BulkSize}

\* the first hit offered with an identifier: the recorded one, or the block's
FirstOffered(id) ==
    IF id \in SmallIds THEN firstHit[id]
    ELSE BulkBlock[CHOOSE k \in 1..BulkSize : BulkBlock[k].id = id]

\* C1: the result set never holds two records with the same placeId nor a
\* record without identifier, and every record holds the attributes of the
\* first hit offered with its identifier, whatever came later
C1_FirstSeenWins ==
    /\ Cardinality(Keys(seen)) = Len(seen)
    /\ NoId \notin Keys(seen)
    /\ Keys(seen) \subseteq offeredIds
    /\ \A k \in 1..Len(seen) : HoldsAttributesOf(seen[k], FirstOffered(seen[k].place_id))
    /\ response.kind = "ok" =>
         /\ Len(response.results) = Len(seen)
         /\ \A k \in 1..Len(seen) :
              HoldsAttributesOf(response.results[k], FirstOffered(seen[k].place_id))

\* C1's case: p1 first came without name, later with one, and a hit without
\* identifier was offered too (a page of two hits, the second without id)
C1_Witness ==
    /\ conflict
    /\ firstHit["p1"] = P1b
    /\ firstHit["p2"] = P2a
    /\ Len(seen) = 2
    /\ pages >= 3
    /\ response.kind = "ok"

\* C2: the result set never exceeds 500 records, and a search that was offered
\* more than 500 distinct identifiers returns exactly 500 results and exactly
\* one cap warning
C2_CapEnforced ==
    /\ Len(seen) <= 500
    /\ Len(results) <= 500
    /\ (response.kind = "ok" /\ Cardinality(offeredIds) > 500) =>
         /\ Len(response.results) = 500
         /\ response.meta.total = 500
         /\ response.meta.warnings
              = <<"Stopped early after 500 results to control API cost.">>

C2_Witness ==
    /\ response.kind = "ok"
    /\ Cardinality(offeredIds) > 500
    /\ pointIdx >= 2

\* C3: once the result set holds 500 records no hit is added to it and no page
\* is requested any more; a page that fills it up is cut at the 500th record
C3_ClosedAtCap ==
    [][/\ Len(seen') <= 500
       /\ Len(seen) >= 500 => (seen' = seen /\ pages' = pages /\ pc' \notin {"page", "sleep"})
       /\ Len(seen') >= 500 => pc' \notin {"page", "sleep"}]_vars

\* C3's case: the set was filled by a page that had more to offer, of a tile that
\* had a further page and was not the last tile
C3_Witness ==
    /\ Len(seen) = 500
    /\ Cardinality(offeredIds) > 500
    /\ last.call.kind = "page"
    /\ last.token # NoToken
    /\ pageCount < 3
    /\ pointIdx < Len(gridPoints)
    /\ pc = "done"

\* a page request is issued by this step
IssuesPage == pc' = "page" /\ (pc # "page" \/ pages' # pages)

\* the for loop leaves the current tile with this step, by entering the next
\* tile or by leaving the tile loop after a page was received
LeavesTile == pc = "page" /\ pages' # pages /\ (pointIdx' # pointIdx \/ pc' \in {"detail", "done"})

C5_EmptyPageRetried ==
    [][(pc = "page" /\ call.pageToken # NoToken /\ tileReqs = 2
        /\ last'.call = call /\ last'.outcome = "ok" /\ last'.empty) =>
          (pc' = "sleep" /\ call'.ms = 1500 /\ pageToken' = call.pageToken)]_vars

\* C6: a page request with a continuation token directly follows the 2 s wait,
\* which directly follows the response of the same tile that returned that
\* token; a tile's first request has no token and follows no wait
C6_WaitBeforeToken ==
    /\ (pc = "page" /\ call.pageToken # NoToken) =>
         /\ last.call.kind = "sleep"
         /\ last.call.ms = 2000
         /\ call.pageToken = pageToken
         /\ tileReqs > 1
    /\ pc = "sleep" =>
         /\ call.kind = "sleep"
         /\ call.ms = 2000
         /\ last.call.kind = "page"
         /\ last.call.center = CenterOf(gridPoints[pointIdx])
         /\ last.outcome = "ok"
         /\ last.token # NoToken
         /\ pageToken = last.token
    /\ (pc = "page" /\ tileReqs = 1) =>
         /\ call.pageToken = NoToken
         /\ last.call.kind # "sleep"
    /\ pc = "page" => call.kind = "page" /\ tileReqs >= 1

\* C6's case: a later tile's request carries a token
C6_Witness ==
    /\ pc = "page"
    /\ call.pageToken # NoToken
    /\ pointIdx >= 2
    /\ tileReqs = 3

\* the legacy token the spec gives for an upstream status, and the response
\* code it gives for a legacy token
LegacyToken(status) ==
    IF status = "RESOURCE_EXHAUSTED" THEN "OVER_QUERY_LIMIT"
    ELSE IF status = "PERMISSION_DENIED" THEN "REQUEST_DENIED"
    ELSE IF status = "INVALID_ARGUMENT" THEN "INVALID_REQUEST"
    ELSE status

OuterCode(token) ==
    IF token = "OVER_QUERY_LIMIT" THEN 429
    ELSE IF token = "REQUEST_DENIED" THEN 403
    ELSE IF token = "INVALID_REQUEST" THEN 400
    ELSE 500

C8_Classification ==
    (pc = "done" /\ last.outcome = "notok") =>
        /\ response.kind = "error"
        /\ response.status = LegacyToken(last.status)
        /\ response.code = OuterCode(LegacyToken(last.status))
        /\ (last.call.kind = "page" /\ last.status = "RESOURCE_EXHAUSTED") =>
             (response.status = "OVER_QUERY_LIMIT" /\ response.code = 429)

C8_Witness ==
    /\ pc = "done"
    /\ last.call.kind = "page"
    /\ last.outcome = "notok"
    /\ last.status = "RESOURCE_EXHAUSTED"
    /\ response.code = 429

Unset(place) == place.formatted_phone_number = NoText /\ place.website = NoText

LatSpan(v) == Abs(v.northeast.lat - v.southwest.lat)
LngSpan(v) == Abs(v.northeast.lng - v.southwest.lng)

\* C11: the upstream calls of a search are made one after the other. The handler
\* awaits exactly the call of its position; every page request of the current
\* tile but the awaited one has been answered, and every detail request but the
\* awaited one; a request is issued only by the step that receives the answer
\* to the call before it; the first page request is issued on the geocoder's
\* answer, a tile is entered on the answer to the last page request of the tile
\* before it, and the first detail request is issued on the answer to the last
\* page request
C11_Sequential ==
    [][/\ pc' = "geocode" =>
            (call'.kind = "geocode" /\ tileReqs' = 0 /\ pages' = 0 /\ detailLog' = << >>)
       /\ pc' = "page" =>
            /\ call'.kind = "page"
            /\ call'.center = CenterOf(gridPoints'[pointIdx'])
            /\ tileReqs' = pageCount' + 1
            /\ detailLog' = << >>
       /\ pc' = "sleep" =>
            (call'.kind = "sleep" /\ tileReqs' = pageCount' /\ detailLog' = << >>)
       /\ pc' = "detail" =>
            (call'.kind = "detail" /\ Len(detailLog') = i' + 1 /\ tileReqs' = pageCount')
       /\ pc' = "done" => call' = NoCall
       /\ (call' # call /\ call'.kind \in {"page", "detail"}) =>
            /\ call.kind \in {"geocode", "page", "sleep", "detail"}
            /\ last'.call = call
            /\ last'.outcome = "ok"
       /\ (pc' = "page" /\ pageCount' = 0 /\ pointIdx' = 1) => pc = "geocode"
       /\ pointIdx' # pointIdx =>
            /\ pointIdx' = pointIdx + 1
            /\ pointIdx = 0 \/ (pc = "page" /\ tileReqs = pageCount + 1 /\ pages' = pages + 1)
       /\ (pc' = "detail" /\ pc # "detail") =>
            (pc = "page" /\ tileReqs = pageCount + 1 /\ pages' = pages + 1)]_vars

\* C11's case: the second detail request is awaited, after pages of two tiles
C11_Witness ==
    /\ pc = "detail"
    /\ Len(detailLog) = 2
    /\ pointIdx >= 2
    /\ pages >= 3
    /\ last.call.kind = "detail"

\* C12: a viewport with both spans at most 0.35 degrees is partitioned into
\* exactly 9 points, one with a span above 0.35 degrees into exactly 16; no
\* partition has more than 16 points
C12_GridSize ==
    pc = "partitioned" =>
        /\ Len(gridPoints) <= 16
        /\ (geo.viewport.present /\ LatSpan(geo.viewport) <= 35 /\ LngSpan(geo.viewport) <= 35)
             => Len(gridPoints) = 9
        /\ (geo.viewport.present /\ (LatSpan(geo.viewport) > 35 \/ LngSpan(geo.viewport) > 35))
             => Len(gridPoints) = 16

\* C12's case: the longitude span is exactly 0.35 degrees, the latitude span less
C12_Witness ==
    /\ pc = "partitioned"
    /\ geo.viewport.present
    /\ LngSpan(geo.viewport) = 35
    /\ LatSpan(geo.viewport) = 10
    /\ Len(gridPoints) = 9

\* C13: without a viewport the partition is exactly one point, at the geocoded
\* center, with a radius of 40000 meters
C13_NoViewportOnePoint ==
    (pc = "partitioned" /\ ~geo.viewport.present) =>
        /\ Len(gridPoints) = 1
        /\ gridPoints[1].lat = 24 * geo.location.lat
        /\ gridPoints[1].lng = 24 * geo.location.lng
        /\ gridPoints[1].radiusMeters = 40000

C13_Witness ==
    /\ pc = "partitioned"
    /\ ~geo.viewport.present
    /\ geo.location = Corner(3978, -8965)
    /\ Len(gridPoints) = 1

\* C14: every point of a partition has a radius from 5000 to 40000 meters, and
\* the points of one partition have the same radius
C14_RadiusClamped ==
    pc = "partitioned" =>
        /\ \A k \in 1..Len(gridPoints) :
             gridPoints[k].radiusMeters >= 5000 /\ gridPoints[k].radiusMeters <= 40000
        /\ \A j, k \in 1..Len(gridPoints) :
             gridPoints[j].radiusMeters = gridPoints[k].radiusMeters

\* C14's case: a viewport from pole to pole around the globe
C14_Witness ==
    /\ pc = "partitioned"
    /\ geo.viewport.present
    /\ LatSpan(geo.viewport) = 18000
    /\ LngSpan(geo.viewport) = 36000
    /\ Len(gridPoints) = 16
    /\ gridPoints[16].radiusMeters = 40000

\* C15: without the credential the endpoint answers at once: no geocode, page
\* or detail request is ever issued or answered, and the answer is the error
C15_NoCredentialNoTraffic ==
    apiKey = "" =>
        /\ pc \in {"start", "done"}
        /\ call = NoCall
        /\ last.call = NoCall
        /\ pages = 0
        /\ tileReqs = 0
        /\ detailLog = << >>
        /\ pc = "done" =>
             /\ response.kind = "error"
             /\ response.code = 500
             /\ response.error = "Missing GOOGLE_MAPS_API_KEY"

\* C15's case: only the credential is missing, the request itself is good
C15_Witness ==
    /\ apiKey = ""
    /\ body.parses
    /\ Trim(body.city) # << >>
    /\ pc = "done"
    /\ response.code = 500

\* the geocode responses that geocodeCity must refuse
GeocodeMustFail(res) ==
    \/ ~res.ok
    \/ res.status # "OK"
    \/ Len(res.results) = 0
    \/ ~res.results[1].hasLocation

\* C16: geocodeCity fails exactly for a response that is not OK, has a status
\* other than OK, has no results, or whose first result has no coordinates; the
\* search makes one geocode call, the first call of all; after its failure no
\* page and no detail request is issued and the endpoint answers the error
C16_GeocodeFailure ==
    /\ \A res \in VillageGeo : geocodeCity(res).ok = ~GeocodeMustFail(res)
    /\ call.kind = "geocode" => (pc = "geocode" /\ last.call = NoCall)
    /\ pc \in {"page", "sleep", "detail"} => geo # NoGeo
    /\ (last.call.kind = "geocode" /\ last.outcome = "notok") =>
         /\ pc = "done"
         /\ call = NoCall
         /\ gridPoints = << >>
         /\ pages = 0
         /\ tileReqs = 0
         /\ detailLog = << >>
         /\ response.kind = "error"
         /\ response.status = last.status
         /\ "results" \notin DOMAIN response

\* C16's case: the geocoder answered OK with a result without coordinates
C16_Witness ==
    /\ last.call.kind = "geocode"
    /\ last.outcome = "notok"
    /\ last.status = NoStatus
    /\ response.kind = "error"
    /\ response.error = "Geocode response missing coordinates"

\* pages counts the page requests that were answered successfully
PagesCountAnswers ==
    pages' = IF pc = "page" /\ last'.call = call /\ last'.outcome = "ok"
             THEN pages + 1 ELSE pages

\* C17: the pages counter grows by one with every page request answered
\* successfully and never otherwise; when every tile is answered by a single
\* page without continuation token, a successful search reports as many pages
\* as grid points, as many results as the returned hits have distinct
\* identifiers, and no warnings
C17_SinglePagePerTile ==
    [][/\ PagesCountAnswers
       /\ response'.kind = "ok" =>
            /\ response'.meta.pages = pages'
            /\ response'.meta.pages = Len(gridPoints')
            /\ response'.meta.gridPoints = Len(gridPoints')
            /\ response'.meta.total = Cardinality(offeredIds')
            /\ Len(response'.results) = response'.meta.total
            /\ response'.meta.warnings = << >>]_vars

\* C17's case: Springfield at (39.78, -89.65) with a viewport of 0.1 degrees,
\* 9 tiles with 2 hits each that no other tile has
C17_Witness ==
    /\ response.kind = "ok"
    /\ geo.location = Corner(3978, -8965)
    /\ LatSpan(geo.viewport) = 10
    /\ response.meta.gridPoints = 9
    /\ response.meta.pages = 9
    /\ response.meta.total = 18
    /\ response.meta.warnings = << >>

\* what the page renders: {warning && !error && <div>{warning}</div>}
WarningVisible == ui.warning # NoText /\ ui.error = NoText

\* C18, as claimed: after a search that the endpoint answered with 429 the
\* quota warning is visible on the page
C18_QuotaWarningVisible ==
    (~ui.loading /\ ui.status = 429) =>
        /\ ui.warning = "Results may be limited due to API quota or rate limits."
        /\ WarningVisible

Unescaped(text, k) == Cardinality({j \in 1..(k - 1) : text[j] = Quote}) % 2 = 0

Breaks(text, char) == {k \in 1..Len(text) : text[k] = char /\ Unescaped(text, k)}

RECURSIVE SplitAt(_, _, _)
SplitAt(text, from, at) ==
    IF at = {} THEN <<SubSeq(text, from, Len(text))>>
    ELSE LET k == CHOOSE x \in at : \A y \in at : x <= y
         IN <<SubSeq(text, from, k - 1)>> \o SplitAt(text, k + 1, at \ {k})

RECURSIVE UndoubleQuotes(_)
UndoubleQuotes(str) ==
    IF str = << >> THEN << >>
    ELSE IF Head(str) = Quote /\ Len(str) > 1 /\ str[2] = Quote
    THEN <<Quote>> \o UndoubleQuotes(SubSeq(str, 3, Len(str)))
    ELSE <<Head(str)>> \o UndoubleQuotes(Tail(str))

ReadField(str) ==
    IF str # << >> /\ Head(str) = Quote
    THEN UndoubleQuotes(SubSeq(str, 2, Len(str) - 1))
    ELSE str

ParseCsv(text) ==
    LET lines == SplitAt(text, 1, Breaks(text, NewLine))
        fields(line) == SplitAt(line, 1, Breaks(line, Comma))
    IN [r \in 1..Len(lines) |->
          [c \in 1..Len(fields(lines[r])) |-> ReadField(fields(lines[r])[c])]]

Count(text, char) == Cardinality({k \in 1..Len(text) : text[k] = char})

\* the length of a field as it must be written: as it is, or with two quotes
\* around it and every quote in it twice
WrittenLen(text) ==
    IF Count(text, Comma) + Count(text, Quote) + Count(text, NewLine) > 0
    THEN Len(text) + 2 + Count(text, Quote)
    ELSE Len(text)

Sum(f, n) == LET RECURSIVE S(_)
                 S(k) == IF k = 0 THEN 0 ELSE f[k] + S(k - 1)
             IN S(n)

\* C20: the CSV text of the page's results, read back, is the header row and
\* one row of 11 fields per record with the record's values in column order;
\* the text has, per field, exactly the characters of the field, plus two quotes
\* and one more quote per quote of the field if and only if the field has a
\* comma, a quote or a line break
C20_CsvRoundTrip ==
    csv # NoCsv =>
        LET rows == ParseCsv(csv)
            n == Len(ui.results)
        IN /\ Len(rows) = n + 1
           /\ rows[1] = CSV_HEADERS
           /\ \A k \in 1..n :
                LET place == ui.results[k]
                    row == rows[k + 1]
                IN /\ Len(row) = 11
                   /\ row = values(place)
                   /\ row[1] = place.name
                   /\ row[2] = place.formatted_address
                   /\ row[5] = place.place_id
                   /\ row[8] = join(place.types, <<";">>)
                   /\ row[10] = place.formatted_phone_number
                   /\ row[11] = place.website
           /\ Len(csv) = Len(join(CSV_HEADERS, <<Comma>>))
                + Sum([k \in 1..n |->
                         1 + 10 + Sum([c \in 1..11 |-> WrittenLen(values(ui.results[k])[c])], 11)],
                      n)

\* C20's case: two records, the name of the first with a line break and a
\* quote, the address of the second with a comma
C20_Witness ==
    /\ csv # NoCsv
    /\ Len(ui.results) = 2
    /\ ui.results[1].name = <<NewLine, Quote>>
    /\ ui.results[2].formatted_address = <<"1", Comma, " ", "S", "t">>
    /\ Count(csv, NewLine) > 2

C22_Bounded ==
    /\ sent.geocode <= 1
    /\ sent.page <= 48
    /\ Len(detailLog) <= 50

Wrapped(x) == ((x + 432000) % 864000) - 432000

BetweenLng(viewport, x) ==
    LET west == 24 * viewport.southwest.lng
        east == 24 * viewport.northeast.lng
    IN IF west <= east
       THEN west <= x /\ x <= east
       ELSE west <= Wrapped(x) \/ Wrapped(x) <= east

\* C23: for a viewport (its northeast corner not south of the southwest one), every
\* center is the midpoint of its cell, its latitude is between the viewport's
\* latitudes and its longitude between the viewport's longitudes, also across the
\* antimeridian; the centers are pairwise distinct when both spans are non-zero
C23_CentersInsideViewport ==
    (/\ pc = "partitioned"
     /\ geo.viewport.present
     /\ geo.viewport.southwest.lat <= geo.viewport.northeast.lat) =>
        LET v == geo.viewport
            dim == IF Len(gridPoints) = 16 THEN 4 ELSE 3
            row(k) == (k - 1) \div dim
            col(k) == (k - 1) % dim
            \* the sides of the cells, in 1/2400 degree
            latSide(r) == 24 * v.southwest.lat + (24 * LatSpan(v) * r) \div dim
            lngSide(c) == 24 * v.southwest.lng + (24 * LngSpan(v) * c) \div dim
        IN /\ \A k \in 1..Len(gridPoints) :
                /\ 2 * gridPoints[k].lat = latSide(row(k)) + latSide(row(k) + 1)
                /\ 2 * gridPoints[k].lng = lngSide(col(k)) + lngSide(col(k) + 1)
                /\ 24 * v.southwest.lat <= gridPoints[k].lat
                /\ gridPoints[k].lat <= 24 * v.northeast.lat
                /\ BetweenLng(v, gridPoints[k].lng)
           /\ (LatSpan(v) # 0 /\ LngSpan(v) # 0) =>
                \A j, k \in 1..Len(gridPoints) :
                    j # k => CenterOf(gridPoints[j]) # CenterOf(gridPoints[k])

\* ------------------------------------------------------------ C24
\* C24: whenever no search is loading, the total the page shows (meta.total) is
\* the number of result rows it shows
C24_TotalIsRowCount == ~ui.loading => ui.meta.total = Len(ui.results)

\* the second search of a session was answered with rows
C24_Witness ==
    /\ ~ui.loading
    /\ ui.searches = 2
    /\ ui.status = 200
    /\ Len(ui.results) > 0
    /\ ui.meta.total = Len(ui.results)

\* ------------------------------------------------------------ C25
\* C25: at most one fetch of handleSearch is in flight at any time, a search is
\* loading exactly while one is, and a search that is loading is no longer loading
\* at some later time
C25_OneSearchAtATime ==
    /\ [](ui.inflight <= 1 /\ (ui.loading <=> ui.inflight = 1))
    /\ (ui.loading ~> ~ui.loading)

\* the second search of a session is in flight, its request at the handler
C25_Witness ==
    /\ ui.loading
    /\ ui.inflight = 1
    /\ ui.searches = 2
    /\ pc = "page"

====
